---------------------------- MODULE Spec2Model ----------------------------
(***************************************************************************)
(* A model of the crystal packing search: the packed state (shape, cell,   *)
(* occupied sites), its intersection check and score, the parameter basis, *)
(* the Monte-Carlo optimiser, the parallel fan-out over start              *)
(* configurations, and the parsing of group names and symmetry operations. *)
(*                                                                         *)
(* Numbers.  The program computes in f64.  The model computes exactly on a *)
(* grid:                                                                   *)
(*   - lengths are integers in units of 1/Unit of the unit shape radius;   *)
(*   - fractional site coordinates and radial points are integers in       *)
(*     units of 1/Sub;                                                     *)
(*   - the cell angle is one of the angles of CellAngles: Pythagorean      *)
(*     angles, whose sine and cosine are rationals, and pi/3;              *)
(*   - site angles are whole quarter turns;                                *)
(*   - a packing fraction is an exact rational carried with its natural    *)
(*     logarithm in millionths, and the value of the acceptance function   *)
(*     is a logarithmic number with the IEEE special values it can take    *)
(*     (zero, infinity, NaN).                                              *)
(***************************************************************************)
EXTENDS Integers, Sequences, FiniteSets, TLC

(***************************************************************************)
(* Scales of the grid (not bounds: the grid must resolve -1/2 + 1/(2m) for *)
(* m = 1, 2, 4 and the sample fractions of the cell lengths).              *)
(***************************************************************************)
Sub == 2 * 2 * 2
Unit == 2 * 2

\* Option: None, and Some(v).
None == [some |-> FALSE]
Some(v) == [some |-> TRUE, val |-> v]
NoOperator == "none"

\* Result: Ok(v), and Err(e).
Ok(v) == [ok |-> TRUE, val |-> v]
Err(e) == [ok |-> FALSE, err |-> e]

\* What is left of a computation that has panicked.
Panicked == [panicked |-> TRUE]

Abs(n) == IF n < 0 THEN -n ELSE n
Sgn(n) == IF n > 0 THEN 1 ELSE IF n < 0 THEN -1 ELSE 0
Min2(m, n) == IF m <= n THEN m ELSE n
Max2(m, n) == IF m >= n THEN m ELSE n

RECURSIVE SumSeq(_)
SumSeq(s) == IF s = << >> THEN 0 ELSE Head(s) + SumSeq(Tail(s))

(***************************************************************************)
(* Crystal families and the cell angles of the grid.                       *)
(* The first three entries of CellAngles are ordered by increasing angle   *)
(* and are the angles a Monoclinic cell takes; the last is pi/3, the fixed *)
(* angle of the Hexagonal family, whose sine is irrational and is left     *)
(* out: no group of WallpaperGroups has that family, and no shape is       *)
(* placed in such a cell.  Every entry lies in [pi/4, 3 pi/4]; dev is      *)
(* |angle - pi/2| in milliradians.                                         *)
(***************************************************************************)
CrystalFamily == {"Monoclinic", "Orthorhombic", "Hexagonal", "Tetragonal"}

CellAngles ==
  << [c |-> 8,  s |-> 15, den |-> 17, dev |-> 490],   \* acos( 8/17) = 61.93 deg
     [c |-> 0,  s |-> 1,  den |-> 1,  dev |-> 0],     \* pi/2
     [c |-> -8, s |-> 15, den |-> 17, dev |-> 490],   \* acos(-8/17) = 118.07 deg
     [c |-> 1,  den |-> 2, dev |-> 524] >>            \* pi/3
RightAngle == 2
HexagonalAngle == Len(CellAngles)

(***************************************************************************)
(* Wallpaper groups.  A symmetry operation is kept as the program keeps    *)
(* it, as text: a sequence of characters.                                  *)
(***************************************************************************)
WallpaperGroups == {"p1", "p2", "p1m1", "p1g1", "p2mm", "p2mg", "p2gg"}

\* impl TryFrom<WallpaperGroups> for WallpaperGroup
WallpaperGroupOf(name) ==
  CASE name = "p1" ->
      [name |-> "p1", family |-> "Monoclinic",
       wyckoff_str |->
         << <<"x", ",", "y">> >>]
    [] name = "p2" ->
      [name |-> "p2", family |-> "Monoclinic",
       wyckoff_str |->
         << <<"x", ",", "y">>,
            <<"-", "x", ",", "-", "y">> >>]
    [] name = "p1m1" ->
      [name |-> "p1m1", family |-> "Orthorhombic",
       wyckoff_str |->
         << <<"x", ",", "y">>,
            <<"-", "x", ",", "y">> >>]
    [] name = "p1g1" ->
      [name |-> "p1m1", family |-> "Orthorhombic",
       wyckoff_str |->
         << <<"x", ",", "y">>,
            <<"-", "x", ",", "y", "+", "1", "/", "2">> >>]
    [] name = "p2mm" ->
      [name |-> "p2mm", family |-> "Orthorhombic",
       wyckoff_str |->
         << <<"x", ",", "y">>,
            <<"-", "x", ",", "-", "y">>,
            <<"-", "x", ",", "y">>,
            <<"x", ",", "-", "y">> >>]
    [] name = "p2mg" ->
      [name |-> "p2mg", family |-> "Orthorhombic",
       wyckoff_str |->
         << <<"x", ",", "y">>,
            <<"-", "x", ",", " ", "-", "y">>,
            <<"-", "x", "+", "1", "/", "2", ",", " ", "y">>,
            <<"x", "+", "1", "/", "2", ",", " ", "-", "y">> >>]
    [] name = "p2gg" ->
      [name |-> "p2gg", family |-> "Orthorhombic",
       wyckoff_str |->
         << <<"x", ",", "y">>,
            <<"-", "x", ",", " ", "-", "y">>,
            <<"-", "x", "+", "1", "/", "2", ",", " ", "y", "+", "1", "/", "2">>,
            <<"x", "+", "1", "/", "2", ",", " ", "-", "y", "+", "1", "/", "2">> >>]

\* Wallpaper::new
WallpaperNew(group) == [name |-> group.name, family |-> group.family]

\* The mutant of from_str that does not know the alias pg.
from_str_no_alias(s) ==
  CASE s = "p1" -> Ok("p1")
    [] s = "p2" -> Ok("p2")
    [] s = "p1m1" -> Ok("p1m1")
    [] s = "p1g1" -> Ok("p1g1")
    [] s = "p2mm" -> Ok("p2mm")
    [] s = "p2mg" -> Ok("p2mg")
    [] s = "p2gg" -> Ok("p2gg")
    [] OTHER -> Err("Invalid Value")

\* impl FromStr for WallpaperGroups
from_str(s) ==
  CASE s = "p1" -> Ok("p1")
    [] s = "p2" -> Ok("p2")
    [] s = "p1m1" -> Ok("p1m1")
    [] s = "p1g1" -> Ok("p1g1")
    [] s = "pg" -> Ok("p1g1")
    [] s = "p2mm" -> Ok("p2mm")
    [] s = "p2mg" -> Ok("p2mg")
    [] s = "p2gg" -> Ok("p2gg")
    [] OTHER -> Err("Invalid Value")

\* impl Display for WallpaperGroups
fmt(self) ==
  CASE self = "p1" -> "p1"
    [] self = "p2" -> "p2"
    [] self = "p1m1" -> "p1m1"
    [] self = "p1g1" -> "p1g1"
    [] self = "p2mm" -> "p2mm"
    [] self = "p2mg" -> "p2mg"
    [] self = "p2gg" -> "p2gg"

\* WallpaperGroups::variants
variants == <<"p1", "p2", "p2m1", "p1g1", "p2mm", "p2mg", "p2gg">>

(***************************************************************************)
(* Parsing a symmetry operation.  The constant of an operation is kept in  *)
(* units of 1/Sub.                                                         *)
(***************************************************************************)
Digits == {"0", "1", "2", "3", "4", "5", "6", "7", "8", "9"}

DigitVal(ch) ==
  CASE ch = "0" -> 0 [] ch = "1" -> 1 [] ch = "2" -> 2 [] ch = "3" -> 3
    [] ch = "4" -> 4 [] ch = "5" -> 5 [] ch = "6" -> 6 [] ch = "7" -> 7
    [] ch = "8" -> 8 [] ch = "9" -> 9

\* One character of SymmetryTransform::parse_ops, on the running
\* (vec, sign, constant, operator).
ParseChar(st, ch) ==
  CASE ch = "x" -> [st EXCEPT !.vec = <<st.sign, st.vec[2]>>, !.sign = 1]
    [] ch = "y" -> [st EXCEPT !.vec = <<st.vec[1], st.sign>>, !.sign = 1]
    [] ch \in {"*", "/"} -> [st EXCEPT !.operator = ch]
    [] ch = "-" -> [st EXCEPT !.sign = -1]
    [] ch \in Digits ->
         LET val == DigitVal(ch)
         IN  IF st.operator # NoOperator
             THEN [st EXCEPT
                     !.constant =
                        IF st.operator = "/"
                        THEN IF val = 0 THEN 0 ELSE (st.sign * st.constant) \div val
                        ELSE st.sign * st.constant * val,
                     !.operator = NoOperator,
                     !.sign = 1]
             ELSE [st EXCEPT !.constant = st.sign * val * Sub, !.sign = 1]
    [] OTHER -> st

RECURSIVE ParseFrom(_, _)
ParseFrom(st, ops) ==
  IF ops = << >> THEN st ELSE ParseFrom(ParseChar(st, Head(ops)), Tail(ops))

\* SymmetryTransform::parse_ops: the row of the linear part and the constant.
parse_ops(ops) ==
  LET st == ParseFrom([vec |-> <<0, 0>>, sign |-> 1, constant |-> 0,
                       operator |-> NoOperator], ops)
  IN  [vec |-> st.vec, constant |-> st.constant]

RECURSIVE TrimFront(_)
TrimFront(s) ==
  IF s # << >> /\ Head(s) \in {"(", ")"} THEN TrimFront(Tail(s)) ELSE s

RECURSIVE TrimBack(_)
TrimBack(s) ==
  IF s # << >> /\ s[Len(s)] \in {"(", ")"}
  THEN TrimBack(SubSeq(s, 1, Len(s) - 1)) ELSE s

RECURSIVE SplitComma(_)
SplitComma(s) ==
  IF s = << >> THEN << >>
  ELSE LET hits == {i \in 1..Len(s) : s[i] = ","}
       IN  IF hits = {} THEN <<s>>
           ELSE LET i == CHOOSE k \in hits : \A h \in hits : k <= h
                IN  <<SubSeq(s, 1, i - 1)>> \o SplitComma(SubSeq(s, i + 1, Len(s)))

\* SymmetryTransform::new: the rows of the linear part (the identity where
\* the text gives none) and the translation.  A third operation is written
\* to a row the 2 x 2 matrix does not have, which panics.
SymmetryTransformNew(sym_ops) ==
  LET operations == SplitComma(TrimBack(TrimFront(sym_ops)))
      row(i) == IF i <= Len(operations) THEN parse_ops(operations[i]).vec
                ELSE IF i = 1 THEN <<1, 0>> ELSE <<0, 1>>
      con(i) == IF i <= Len(operations) THEN parse_ops(operations[i]).constant
                ELSE 0
  IN  IF Len(operations) > 2 THEN Panicked
      ELSE [rot |-> <<row(1), row(2)>>, trans |-> <<con(1), con(2)>>]

\* WyckoffSite::new
WyckoffSiteNew(group) ==
  [letter |-> "a",
   symmetries |-> [i \in 1..Len(group.wyckoff_str) |->
                     SymmetryTransformNew(group.wyckoff_str[i])],
   num_rotations |-> 1]

\* WyckoffSite::multiplicity
WyckoffMultiplicity(wyckoff) == Len(wyckoff.symmetries)


(***************************************************************************)
(* Shapes: polygons given by radial points (in units of 1/Sub of the unit  *)
(* radius) at equally spaced angles.  The model keeps four-sided shapes,   *)
(* whose vertices lie on the axes.                                         *)
(***************************************************************************)
Square == [name |-> "Square", radial_points |-> <<8, 8, 8, 8>>,
           rotational_symmetries |-> 4]
Needle == [name |-> "Needle", radial_points |-> <<1, 8, 1, 8>>,
           rotational_symmetries |-> 2]

RECURSIVE GCD(_, _)
GCD(m, n) == IF n = 0 THEN m ELSE GCD(n, m % n)

\* The rational n / d (d > 0) in lowest terms.
Rat(n, d) ==
  LET g == GCD(Abs(n), d)
  IN  IF g = 0 THEN [n |-> 0, d |-> 1] ELSE [n |-> n \div g, d |-> d \div g]
RatLt(p, q) == p.n * q.d < q.n * p.d
RatLe(p, q) == p.n * q.d <= q.n * p.d
RatEq(p, q) == p.n * q.d = q.n * p.d

\* Shape::area, in units of 1/(2 Sub^2) of a squared length unit:
\* 1/2 * sum r_i r_{i+1} * sin(2 pi / 4).
ShapeAreaNum(shape) ==
  LET r == shape.radial_points
      n == Len(r)
  IN  SumSeq([i \in 1..n |-> r[i] * r[(i % n) + 1]]) * Unit * Unit
ShapeAreaDen == 2 * Sub * Sub

\* Shape::enclosing_radius, in units of 1/Sub of a length unit.
EnclosingRadiusSub(shape) ==
  LET r == shape.radial_points
  IN  Unit * (CHOOSE m \in {r[i] : i \in 1..Len(r)} :
                \A i \in 1..Len(r) : r[i] <= m)

Dirs == << <<1, 0>>, <<0, 1>>, <<-1, 0>>, <<0, -1>> >>

(***************************************************************************)
(* Transforms.  A transform is a linear part rot (two rows) and a position *)
(* pos.  Relative positions are in units of 1/Sub of the cell; cartesian   *)
(* positions of a cell of angle (c, s)/den are in units of 1/(Sub * den)   *)
(* of a length unit.                                                       *)
(***************************************************************************)
MatMul(m, n) ==
  << <<m[1][1] * n[1][1] + m[1][2] * n[2][1], m[1][1] * n[1][2] + m[1][2] * n[2][2]>>,
     <<m[2][1] * n[1][1] + m[2][2] * n[2][1], m[2][1] * n[1][2] + m[2][2] * n[2][2]>> >>
MatVec(m, v) == <<m[1][1] * v[1] + m[1][2] * v[2], m[2][1] * v[1] + m[2][2] * v[2]>>

\* The rotation by q quarter turns.
QuarterTurn(q) ==
  CASE q % 4 = 0 -> << <<1, 0>>, <<0, 1>> >>
    [] q % 4 = 1 -> << <<0, -1>>, <<1, 0>> >>
    [] q % 4 = 2 -> << <<-1, 0>>, <<0, -1>> >>
    [] q % 4 = 3 -> << <<0, 1>>, <<-1, 0>> >>

\* OccupiedSite::transform
SiteTransform(site) == [rot |-> QuarterTurn(site.angle), pos |-> <<site.x, site.y>>]

\* OccupiedSite::multiplicity
SiteMultiplicity(site) == Len(site.wyckoff.symmetries)

\* OccupiedSite::positions: every symmetry of the site applied to its
\* transform.
SitePositions(site) ==
  LET tr == SiteTransform(site)
  IN  [k \in 1..SiteMultiplicity(site) |->
         LET sym == site.wyckoff.symmetries[k]
             lin == MatVec(sym.rot, tr.pos)
         IN  [rot |-> MatMul(sym.rot, tr.rot),
              pos |-> <<lin[1] + sym.trans[1], lin[2] + sym.trans[2]>>]]

\* Cell::to_cartesian_isometry
to_cartesian_isometry(cell, tr) ==
  LET g == CellAngles[cell.angle]
  IN  [rot |-> tr.rot,
       pos |-> <<g.den * cell.a * tr.pos[1] + g.c * cell.b * tr.pos[2],
                 g.s * cell.b * tr.pos[2]>>]

\* The mutant of periodic_images that always includes the cell (0, 0).
periodic_images_with_self(cell, tr, range, include_self) ==
  { to_cartesian_isometry(cell,
       [rot |-> tr.rot, pos |-> <<tr.pos[1] + i * Sub, tr.pos[2] + j * Sub>>]) :
    <<i, j>> \in (-range..range) \X (-range..range) }

\* Cell::periodic_images: the cartesian transforms of the copies of the
\* relative transform tr in the cells (i, j) of [-range, range]^2.
periodic_images(cell, tr, range, include_self) ==
  { to_cartesian_isometry(cell,
       [rot |-> tr.rot, pos |-> <<tr.pos[1] + i * Sub, tr.pos[2] + j * Sub>>]) :
    <<i, j>> \in { ij \in (-range..range) \X (-range..range) :
                     include_self \/ ij # <<0, 0>> } }

\* Shape::transform: the vertices of the shape posed at the cartesian
\* transform tr, in a cell of angle denominator den.
ShapeTransform(shape, den, tr) ==
  [origin |-> tr.pos,
   verts  |-> [i \in 1..Len(shape.radial_points) |->
                 LET r == shape.radial_points[i] * Unit * den
                     v == MatVec(tr.rot, <<r * Dirs[i][1], r * Dirs[i][2]>>)
                 IN  <<v[1] + tr.pos[1], v[2] + tr.pos[2]>>]]

Cross(p, q, r) == (q[1] - p[1]) * (r[2] - p[2]) - (q[2] - p[2]) * (r[1] - p[1])

OnSegment(p, q, r) ==
  /\ Min2(p[1], q[1]) <= r[1] /\ r[1] <= Max2(p[1], q[1])
  /\ Min2(p[2], q[2]) <= r[2] /\ r[2] <= Max2(p[2], q[2])

\* Two segments cross, properly or improperly (an endpoint on the other
\* segment counts).
SegmentsCross(p1, q1, p2, q2) ==
  LET o1 == Sgn(Cross(p1, q1, p2))
      o2 == Sgn(Cross(p1, q1, q2))
      o3 == Sgn(Cross(p2, q2, p1))
      o4 == Sgn(Cross(p2, q2, q1))
  IN  \/ (o1 # o2 /\ o3 # o4)
      \/ (o1 = 0 /\ OnSegment(p1, q1, p2))
      \/ (o2 = 0 /\ OnSegment(p1, q1, q2))
      \/ (o3 = 0 /\ OnSegment(p2, q2, p1))
      \/ (o4 = 0 /\ OnSegment(p2, q2, q1))

StrictlyInside(verts, pt) ==
  LET n == Len(verts)
      side(i) == Sgn(Cross(verts[i], verts[(i % n) + 1], pt))
  IN  \/ \A i \in 1..n : side(i) > 0
      \/ \A i \in 1..n : side(i) < 0

\* Intersect::intersects for two posed polygons: an edge of one crosses an
\* edge of the other, or the origin of one lies strictly inside the other.
intersects(s1, s2) ==
  LET n1 == Len(s1.verts)
      n2 == Len(s2.verts)
  IN  \/ \E i \in 1..n1, j \in 1..n2 :
            SegmentsCross(s1.verts[i], s1.verts[(i % n1) + 1],
                          s2.verts[j], s2.verts[(j % n2) + 1])
      \/ StrictlyInside(s1.verts, s2.origin)
      \/ StrictlyInside(s2.verts, s1.origin)


(***************************************************************************)
(* The cell, the occupied sites and the packed state.                      *)
(***************************************************************************)
\* The mutant of from_family that seeds every family at pi/2.
from_family_right(family, length) ==
  [a |-> length, b |-> length, angle |-> RightAngle, family |-> family]

\* Cell::from_family: both sides are seeded at length (for Hexagonal and
\* Tetragonal they are one shared value), the angle at pi/3 for Hexagonal
\* and at pi/2 for the others.
from_family(family, length) ==
  [a |-> length, b |-> length,
   angle |-> IF family = "Hexagonal" THEN HexagonalAngle ELSE RightAngle,
   family |-> family]

\* Cell::area as the rational a * b * sin(angle), in squared length units.
CellArea(cell) ==
  LET g == CellAngles[cell.angle]
  IN  Rat(cell.a * cell.b * g.s, g.den)

\* The mutant of from_wyckoff that seeds the site at the origin of the cell.
from_wyckoff_origin(wyckoff) ==
  [wyckoff |-> wyckoff, x |-> 0, y |-> 0, angle |-> 0]

\* OccupiedSite::from_wyckoff: x = y = -0.5 + 0.5 / multiplicity, angle 0.
from_wyckoff(wyckoff) ==
  LET position == (Sub \div (2 * WyckoffMultiplicity(wyckoff))) - (Sub \div 2)
  IN  [wyckoff |-> wyckoff, x |-> position, y |-> position, angle |-> 0]

\* The mutant of initialise that sizes the cell by the number of sites.
initialise_sites(shape, wallpaper, isopointal) ==
  LET max_cell_size == (4 * EnclosingRadiusSub(shape) * Len(isopointal)) \div Sub
  IN  [wallpaper |-> wallpaper,
       shape |-> shape,
       cell |-> from_family(wallpaper.family, max_cell_size),
       occupied_sites |-> [i \in 1..Len(isopointal) |-> from_wyckoff(isopointal[i])]]

\* PackedState::initialise
initialise(shape, wallpaper, isopointal) ==
  LET num_shapes == SumSeq([i \in 1..Len(isopointal) |->
                              WyckoffMultiplicity(isopointal[i])])
      max_cell_size == (4 * EnclosingRadiusSub(shape) * num_shapes) \div Sub
  IN  [wallpaper |-> wallpaper,
       shape |-> shape,
       cell |-> from_family(wallpaper.family, max_cell_size),
       occupied_sites |-> [i \in 1..Len(isopointal) |-> from_wyckoff(isopointal[i])]]

\* PackedState::from_group
from_group(shape, group) ==
  initialise(shape, WallpaperNew(group), <<WyckoffSiteNew(group)>>)

\* The mutant of total_shapes that counts the sites.
total_shapes_sites(s) == Len(s.occupied_sites)

\* PackedState::total_shapes
total_shapes(s) ==
  SumSeq([i \in 1..Len(s.occupied_sites) |-> SiteMultiplicity(s.occupied_sites[i])])

RECURSIVE Flatten(_)
Flatten(ss) == IF ss = << >> THEN << >> ELSE Head(ss) \o Flatten(Tail(ss))

\* PackedState::relative_positions
relative_positions(s) ==
  Flatten([i \in 1..Len(s.occupied_sites) |-> SitePositions(s.occupied_sites[i])])

\* PackedState::cartesian_positions
cartesian_positions(s) ==
  LET rel == relative_positions(s)
  IN  [k \in 1..Len(rel) |-> to_cartesian_isometry(s.cell, rel[k])]

\* The neighbour range of check_intersection: 1 if 0.5 < a/b < 2 and
\* |angle - pi/2| < 0.2, else 2 if 0.3 < a/b < 3 and |angle - pi/2| < 0.5,
\* else 3.
periodic_range(cell) ==
  LET dev == CellAngles[cell.angle].dev
      a == cell.a
      b == cell.b
  IN  IF 5 * b < 10 * a /\ a < 2 * b /\ dev < 200 THEN 1
      ELSE IF 3 * b < 10 * a /\ a < 3 * b /\ dev < 500 THEN 2
      ELSE 3

DistanceSq(p, q) == (p[1] - q[1]) * (p[1] - q[1]) + (p[2] - q[2]) * (p[2] - q[2])

\* The mutant of check_intersection that leaves out the neighbouring cells.
check_intersection_home(s) ==
  LET den == CellAngles[s.cell.angle].den
      cart == cartesian_positions(s)
  IN  \E k1 \in 1..Len(cart) : \E k2 \in (k1 + 1)..Len(cart) :
         intersects(ShapeTransform(s.shape, den, cart[k1]),
                    ShapeTransform(s.shape, den, cart[k2]))

\* PackedState::check_intersection
check_intersection(s) ==
  LET den == CellAngles[s.cell.angle].den
      cart == cartesian_positions(s)
      rel == relative_positions(s)
      n == Len(cart)
      range == periodic_range(s.cell)
      diameter == 2 * EnclosingRadiusSub(s.shape) * den
      radius_sq == diameter * diameter
  IN  \/ \E k1 \in 1..n : \E k2 \in (k1 + 1)..n :
            intersects(ShapeTransform(s.shape, den, cart[k1]),
                       ShapeTransform(s.shape, den, cart[k2]))
      \/ \E k1 \in 1..n : \E k2 \in 1..n :
            \E transform2 \in periodic_images(s.cell, rel[k2], range, FALSE) :
               /\ DistanceSq(cart[k1].pos, transform2.pos) <= radius_sq
               /\ intersects(ShapeTransform(s.shape, den, cart[k1]),
                             ShapeTransform(s.shape, den, transform2))

\* PackedState::packing_fraction: shape.area * total_shapes / cell.area, as
\* a rational.
packing_fraction(s) ==
  LET ca == CellArea(s.cell)
  IN  Rat(ShapeAreaNum(s.shape) * total_shapes(s) * ca.d, ShapeAreaDen * ca.n)

\* The mutant of score that scores an intersecting state too.
score_unchecked(s) == Some(packing_fraction(s))

\* PackedState::score
score(s) == IF check_intersection(s) THEN None ELSE Some(packing_fraction(s))


(***************************************************************************)
(* The basis: one handle per free scalar, with its bounds.  A handle names *)
(* its scalar by kind ("a", "b", "gamma" of the cell; "x", "y", "angle" of *)
(* site number site).  Bounds are rationals in the unit of the scalar:     *)
(* length units, 1/Sub of the cell, the index of the cell angle in         *)
(* CellAngles (which spans [pi/4, 3 pi/4]), quarter turns.                 *)
(***************************************************************************)
Handle(kind, site, min, max) == [kind |-> kind, site |-> site, min |-> min, max |-> max]

\* The mutant of Cell::get_basis whose lengths may grow to four times their
\* value at construction.
cell_get_basis_wide(cell) ==
  <<Handle("a", 0, Rat(Unit, 100), Rat(4 * cell.a, 1))>>
  \o (IF cell.family = "Orthorhombic" \/ cell.family = "Monoclinic"
      THEN <<Handle("b", 0, Rat(Unit, 100), Rat(4 * cell.b, 1))>> ELSE << >>)
  \o (IF cell.family = "Monoclinic"
      THEN <<Handle("gamma", 0, Rat(RightAngle - 1, 1), Rat(RightAngle + 1, 1))>> ELSE << >>)

\* Cell::get_basis
cell_get_basis(cell) ==
  <<Handle("a", 0, Rat(Unit, 100), Rat(cell.a, 1))>>
  \o (IF cell.family = "Orthorhombic" \/ cell.family = "Monoclinic"
      THEN <<Handle("b", 0, Rat(Unit, 100), Rat(cell.b, 1))>> ELSE << >>)
  \o (IF cell.family = "Monoclinic"
      THEN <<Handle("gamma", 0, Rat(RightAngle - 1, 1), Rat(RightAngle + 1, 1))>> ELSE << >>)

\* The mutant of OccupiedSite::get_basis whose x and y range over [0, 1].
site_get_basis_unit(i, rot_symmetry) ==
  << Handle("x", i, Rat(0, 1), Rat(Sub, 1)),
     Handle("y", i, Rat(0, 1), Rat(Sub, 1)),
     Handle("angle", i, Rat(0, 1), Rat(4, rot_symmetry)) >>

\* OccupiedSite::get_basis
site_get_basis(i, rot_symmetry) ==
  << Handle("x", i, Rat(-Sub, 2), Rat(Sub, 2)),
     Handle("y", i, Rat(-Sub, 2), Rat(Sub, 2)),
     Handle("angle", i, Rat(0, 1), Rat(4, rot_symmetry)) >>

\* The mutant of generate_basis that puts the handles of the sites first.
generate_basis_sites_first(s) ==
  Flatten([i \in 1..Len(s.occupied_sites) |->
             site_get_basis(i, s.shape.rotational_symmetries)])
  \o cell_get_basis(s.cell)

\* PackedState::generate_basis
generate_basis(s) ==
  cell_get_basis(s.cell)
  \o Flatten([i \in 1..Len(s.occupied_sites) |->
                site_get_basis(i, s.shape.rotational_symmetries)])

\* The scalar a handle is wired to.
get_value(s, h) ==
  CASE h.kind = "a" -> s.cell.a
    [] h.kind = "b" -> s.cell.b
    [] h.kind = "gamma" -> s.cell.angle
    [] h.kind = "x" -> s.occupied_sites[h.site].x
    [] h.kind = "y" -> s.occupied_sites[h.site].y
    [] h.kind = "angle" -> s.occupied_sites[h.site].angle

\* A write through a handle: the sides of a Hexagonal or Tetragonal cell are
\* clones of one shared value, so a write of a is a write of b.
Put(s, h, v) ==
  CASE h.kind = "a" ->
         IF s.cell.family \in {"Hexagonal", "Tetragonal"}
         THEN [s EXCEPT !.cell.a = v, !.cell.b = v]
         ELSE [s EXCEPT !.cell.a = v]
    [] h.kind = "b" -> [s EXCEPT !.cell.b = v]
    [] h.kind = "gamma" -> [s EXCEPT !.cell.angle = v]
    [] h.kind = "x" -> [s EXCEPT !.occupied_sites[h.site].x = v]
    [] h.kind = "y" -> [s EXCEPT !.occupied_sites[h.site].y = v]
    [] h.kind = "angle" -> [s EXCEPT !.occupied_sites[h.site].angle = v]

\* The least integer not below, and the greatest not above, a rational.
Ceil(q) == -((-q.n) \div q.d)
Floor(q) == q.n \div q.d

\* The mutant of the clamp that has no upper bound.
Clamp_below(h, v) ==
  IF RatLt(Rat(v, 1), h.min) THEN Ceil(h.min) ELSE v

\* A value clamped to the bounds of a handle (on the grid: a bound that is
\* no grid value is replaced by the nearest grid value inside the bounds).
Clamp(h, v) ==
  IF RatLt(Rat(v, 1), h.min) THEN Ceil(h.min)
  ELSE IF RatLt(h.max, Rat(v, 1)) THEN Floor(h.max)
  ELSE v

\* StandardBasis::set_value: the clamped value is written into the scalar.
set_value(s, h, v) == Put(s, h, Clamp(h, v))

(***************************************************************************)
(* The values the model draws for a handle: StandardBasis::sample draws    *)
(* uniformly from the bounds; the model draws from a few grid values       *)
(* inside them.                                                            *)
(***************************************************************************)
LengthFractions == {<<1, 8>>, <<3, 16>>, <<3, 4>>}
SiteSamples == {0, Sub \div 2, Sub}
TurnSamples == {0, 1}

InBounds(h, v) == RatLe(h.min, Rat(v, 1)) /\ RatLe(Rat(v, 1), h.max)

Samples(h) ==
  LET all == CASE h.kind \in {"a", "b"} ->
                    {(Floor(h.max) * f[1]) \div f[2] : f \in LengthFractions}
               [] h.kind = "gamma" -> 1..Len(CellAngles)
               [] h.kind \in {"x", "y"} -> SiteSamples
               [] h.kind = "angle" -> TurnSamples
  IN  {v \in all : InBounds(h, v)}

\* Values outside the bounds, which a write clamps.
Outside(h) ==
  CASE h.kind \in {"a", "b"} -> {2 * Floor(h.max), 0}
    [] h.kind = "gamma" -> {}
    [] h.kind \in {"x", "y"} -> {Sub}
    [] h.kind = "angle" -> {-1}


(***************************************************************************)
(* State.                                                                  *)
(*   state, basis, saved: a packed state under direct use of its basis;    *)
(*     saved is the checkpoint of the handle written last (None once it    *)
(*     has been restored).                                                 *)
(*   runs, final: the optimiser runs of the fan-out and its reduction.     *)
(*   input: a text under parsing (a group name given on the command line   *)
(*     or to from_str, or a symmetry operation), with what has been made   *)
(*     of it.                                                              *)
(***************************************************************************)
VARIABLES state, basis, saved, runs, final, input

vars == <<state, basis, saved, runs, final, input>>

\* The shapes and groups packed states are built from.
StateInputs ==
  {<<Square, g>> : g \in WallpaperGroups} \cup {<<Needle, "p1">>}

InitState ==
  /\ \E in \in StateInputs :
        state = from_group(in[1], WallpaperGroupOf(in[2]))
  /\ basis = generate_basis(state)
  /\ saved = None
  /\ runs = << >>
  /\ final = None
  /\ input = None

\* Basis write: set_value of handle i to v; the previous value becomes the
\* checkpoint.
Write(i, v) ==
  /\ saved' = Some([index |-> i, value |-> get_value(state, basis[i])])
  /\ state' = set_value(state, basis[i], v)
  /\ UNCHANGED <<basis, runs, final, input>>

\* Basis restore: reset_value of the handle written last.
Restore ==
  /\ saved # None
  /\ state' = Put(state, basis[saved.val.index], saved.val.value)
  /\ saved' = None
  /\ UNCHANGED <<basis, runs, final, input>>

NextState ==
  \/ \E i \in 1..Len(basis) : \E v \in Samples(basis[i]) \cup Outside(basis[i]) :
        Write(i, v)
  \/ Restore

SpecState == InitState /\ [][NextState]_vars

(***************************************************************************)
(* A packed state of any crystal family under direct use of its basis.     *)
(* Wallpaper is a plain pair of a name and a family, and initialise takes  *)
(* any list of sites: the states here are built on each of the four        *)
(* families with one general site of p1, and on the families of one cell   *)
(* handle with two.                                                        *)
(***************************************************************************)
CellInputs ==
  {<<[name |-> "p1", family |-> family], <<WyckoffSiteNew(WallpaperGroupOf("p1"))>> >> :
     family \in CrystalFamily}
  \cup
  {<<[name |-> "p1", family |-> family],
     <<WyckoffSiteNew(WallpaperGroupOf("p1")), WyckoffSiteNew(WallpaperGroupOf("p1"))>> >> :
     family \in {"Hexagonal", "Tetragonal"}}

InitCell ==
  /\ \E in \in CellInputs : state = initialise(Square, in[1], in[2])
  /\ basis = generate_basis(state)
  /\ saved = None
  /\ runs = << >>
  /\ final = None
  /\ input = None

SpecCell == InitCell /\ [][NextState]_vars


(***************************************************************************)
(* The periodic tiling itself, against which check_intersection is judged. *)
(* Two posed shapes overlap when an edge of one properly crosses an edge   *)
(* of the other or the centre of one lies strictly inside the other: they  *)
(* then share a region of positive area (shapes that only touch do not     *)
(* overlap).  Two images of the tiling overlap when some copy in the home  *)
(* cell overlaps another copy, or a copy (of another or of itself)         *)
(* translated by a lattice vector (i, j), |i|, |j| <= TilingRange.  Shapes *)
(* further apart than two enclosing radii along an axis cannot overlap and *)
(* are skipped.                                                            *)
(***************************************************************************)
ProperCross(p1, q1, p2, q2) ==
  /\ Sgn(Cross(p1, q1, p2)) * Sgn(Cross(p1, q1, q2)) < 0
  /\ Sgn(Cross(p2, q2, p1)) * Sgn(Cross(p2, q2, q1)) < 0

overlaps(s1, s2) ==
  LET n1 == Len(s1.verts)
      n2 == Len(s2.verts)
  IN  \/ \E i \in 1..n1, j \in 1..n2 :
            ProperCross(s1.verts[i], s1.verts[(i % n1) + 1],
                        s2.verts[j], s2.verts[(j % n2) + 1])
      \/ StrictlyInside(s1.verts, s2.origin)
      \/ StrictlyInside(s2.verts, s1.origin)

TilingRange == 5

TilingOverlap(s) ==
  LET den == CellAngles[s.cell.angle].den
      cart == cartesian_positions(s)
      rel == relative_positions(s)
      n == Len(cart)
      diameter == 2 * EnclosingRadiusSub(s.shape) * den
  IN  \E k1 \in 1..n : \E k2 \in 1..n :
        \E i \in -TilingRange..TilingRange : \E j \in -TilingRange..TilingRange :
           /\ (k1 # k2 \/ i # 0 \/ j # 0)
           /\ LET image == to_cartesian_isometry(s.cell,
                             [rot |-> rel[k2].rot,
                              pos |-> <<rel[k2].pos[1] + i * Sub,
                                        rel[k2].pos[2] + j * Sub>>])
              IN  /\ Abs(cart[k1].pos[1] - image.pos[1]) <= diameter
                  /\ Abs(cart[k1].pos[2] - image.pos[2]) <= diameter
                  /\ overlaps(ShapeTransform(s.shape, den, cart[k1]),
                              ShapeTransform(s.shape, den, image))


(***************************************************************************)
(* Comparing packed states.                                                *)
(***************************************************************************)
\* f64::partial_cmp of two finite scores.
RatCmp(p, q) ==
  IF RatLt(p, q) THEN "Less" ELSE IF RatLt(q, p) THEN "Greater" ELSE "Equal"

\* PartialEq::eq for PackedState
eq(self, other) ==
  LET s == score(self)
      o == score(other)
  IN  IF s # None /\ o # None THEN RatEq(s.val, o.val) ELSE FALSE

\* PartialOrd::partial_cmp for PackedState
partial_cmp(self, other) ==
  LET s == score(self)
      o == score(other)
  IN  IF s # None /\ o # None THEN Some(RatCmp(s.val, o.val)) ELSE None

\* Ord::cmp for PackedState: partial_cmp(..).unwrap(), which panics on None.
Panic == "Panic"
cmp(self, other) ==
  LET ord == partial_cmp(self, other)
  IN  IF ord = None THEN Panic ELSE ord.val

\* The state as it was before the handle written last was written (the
\* state itself when nothing is to be restored).
previous ==
  IF saved = None THEN state
  ELSE Put(state, basis[saved.val.index], saved.val.value)


(***************************************************************************)
(* Numbers of the optimiser.  Packing fractions and temperatures are exact *)
(* rationals.  A value of mc_temperature is kept by its class, as f64      *)
(* arithmetic yields it: not-a-number, +infinity, zero, or a positive      *)
(* number given by its natural logarithm in millionths.                    *)
(***************************************************************************)
RatMul(p, q) == Rat(p.n * q.n, p.d * q.d)
RatDiv(p, q) == Rat(p.n * q.d, p.d * q.n)
RatSub(p, q) == Rat(p.n * q.d - q.n * p.d, p.d * q.d)

RECURSIVE RatPow(_, _)
RatPow(p, k) == IF k = 0 THEN Rat(1, 1) ELSE RatMul(p, RatPow(p, k - 1))

Primes == {2, 3, 5, 7, 11, 13, 17}
PrimeLn(p) ==
  CASE p = 2 -> 693147 [] p = 3 -> 1098612 [] p = 5 -> 1609438
    [] p = 7 -> 1945910 [] p = 11 -> 2397895 [] p = 13 -> 2564949
    [] p = 17 -> 2833213

\* ln of a positive integer whose prime factors are in Primes, in millionths.
RECURSIVE LnNat(_)
LnNat(n) ==
  IF n = 1 THEN 0
  ELSE LET p == CHOOSE q \in Primes : n % q = 0
       IN  PrimeLn(p) + LnNat(n \div p)

\* ln of a positive rational, in millionths.
LnMicro(r) == LnNat(r.n) - LnNat(r.d)

\* A rational of magnitude below 1000, in millionths (rounded down).
Micro(z) ==
  LET q == z.n \div z.d
      rem == z.n - q * z.d
      milli == (rem * 1000) \div z.d
      rest == (rem * 1000) % z.d
  IN  q * 1000000 + milli * 1000 + (rest * 1000) \div z.d

Nan == [cls |-> "nan", ln |-> 0]
Inf == [cls |-> "inf", ln |-> 0]
Zero == [cls |-> "zero", ln |-> 0]
Pos(l) == [cls |-> "pos", ln |-> l]

\* The f64 of logarithm l: above ln(f64::MAX) it is +infinity, below the
\* logarithm of the least subnormal it is zero.
FloatOfLn(l) ==
  IF l > 709782712 THEN Inf ELSE IF l < -745133219 THEN Zero ELSE Pos(l)

\* f64::exp of a rational.
FloatExp(z) ==
  IF RatLt(Rat(710, 1), z) THEN Inf
  ELSE IF RatLt(z, Rat(-746, 1)) THEN Zero
  ELSE FloatOfLn(Micro(z))

\* The product of two non-negative f64: infinity times zero is not a number.
FloatMul(x, y) ==
  IF x.cls = "nan" \/ y.cls = "nan" THEN Nan
  ELSE IF {x.cls, y.cls} = {"inf", "zero"} THEN Nan
  ELSE IF "inf" \in {x.cls, y.cls} THEN Inf
  ELSE IF "zero" \in {x.cls, y.cls} THEN Zero
  ELSE FloatOfLn(x.ln + y.ln)

\* u > A and u <= A for a rational u in [0, 1) and an f64 A >= 0: every
\* comparison with not-a-number is false.
FloatGt(u, A) ==
  CASE A.cls = "nan" -> FALSE
    [] A.cls = "inf" -> FALSE
    [] A.cls = "zero" -> u.n > 0
    [] A.cls = "pos" -> u.n > 0 /\ LnMicro(u) > A.ln

FloatLe(u, A) ==
  CASE A.cls = "nan" -> FALSE
    [] A.cls = "inf" -> TRUE
    [] A.cls = "zero" -> u.n = 0
    [] A.cls = "pos" -> u.n = 0 \/ LnMicro(u) <= A.ln

\* A >= 1 for an f64 A.
FloatGeOne(A) == A.cls = "inf" \/ (A.cls = "pos" /\ A.ln >= 0)

(***************************************************************************)
(* The optimiser.                                                          *)
(***************************************************************************)
MaxSteps == 2
NumStartConfigs == 2

\* The ratios by which a temperature falls in one step.
KtRatios == {Rat(1, 10), Rat(1, 2)}

\* struct MCVars: a start temperature, and a finish temperature reached
\* from it by a ratio of KtRatios in `steps` steps.
MCVarsInputs ==
  {[kt_start |-> c[1], kt_finish |-> RatMul(c[1], RatPow(c[2], steps)),
    max_step_size |-> Rat(1, 10), num_start_configs |-> NumStartConfigs,
    steps |-> steps] :
     c \in {<<Rat(1, 10), Rat(1, 10)>>, <<Rat(10, 1), Rat(1, 2)>>},
     steps \in 1..MaxSteps}

\* MCVars::kt_ratio: powf(kt_finish / kt_start, 1 / steps).
kt_ratio(self) ==
  CHOOSE q \in KtRatios : RatPow(q, self.steps) = RatDiv(self.kt_finish, self.kt_start)

\* The mutant of mc_temperature that takes the difference of the inverse
\* packing fractions the other way round.
mc_temperature_swapped(old, new, kt, n) ==
  IF old.n = 0 THEN Nan
  ELSE FloatMul(FloatExp(RatDiv(RatSub(Rat(new.d, new.n), Rat(old.d, old.n)), kt)),
                FloatOfLn(n * LnMicro(RatDiv(old, new))))

\* mc_temperature: exp((1/old - 1/new) / kt) * (old / new)^n in f64.  For
\* old = 0, 1/old is +infinity, so is the exponential, and (0 / new)^n is 0.
mc_temperature(old, new, kt, n) ==
  IF old.n = 0 THEN FloatMul(Inf, Zero)
  ELSE FloatMul(FloatExp(RatDiv(RatSub(Rat(old.d, old.n), Rat(new.d, new.n)), kt)),
                FloatOfLn(n * LnMicro(RatDiv(old, new))))

\* The values drawn for the uniform u of [0, 1).
USamples == {Rat(0, 1), Rat(15, 16)}

\* PackedState::check_intersection of lib.rs.
check_intersection_stub(s) == TRUE

\* The check_intersection a run is built with: the one beside the optimiser
\* in lib.rs, or the one of state/packed.rs.
Checks == {"lib", "packed"}
run_check_intersection(check, s) ==
  IF check = "lib" THEN check_intersection_stub(s) ELSE check_intersection(s)

\* monte_carlo_best_packing up to its loop: the locals of a run.  Two fields
\* record history and are read by no step: last, the iteration made last,
\* and seen, the greatest packing fraction among the initial state and the
\* candidates evaluated so far that do not intersect (None if there is none).
StartRun(check, mcvars, s) ==
  [check |-> check, vars |-> mcvars, initial |-> s,
   state |-> s, basis |-> generate_basis(s),
   rejections |-> 0,
   kt |-> mcvars.kt_start, kt_ratio |-> kt_ratio(mcvars),
   total_shapes |-> total_shapes(s),
   packing |-> packing_fraction(s),
   packing_prev |-> Rat(0, 1), packing_max |-> Rat(0, 1),
   best_state |-> s,
   iteration |-> 0, pc |-> "loop", result |-> None,
   last |-> None,
   seen |-> IF run_check_intersection(check, s) THEN None
            ELSE Some(packing_fraction(s))]

\* The mutant of the end of an iteration in which the temperature falls only
\* after a candidate that was kept.
EndIteration_kept(r) ==
  LET better == RatLt(r.packing_max, r.packing)
      kept == r.last # None /\ ~r.last.val.intersects /\ r.last.val.accepted
  IN  [r EXCEPT !.best_state = IF better THEN r.state ELSE @,
                !.packing_max = IF better THEN r.packing ELSE @,
                !.kt = IF kept THEN RatMul(@, r.kt_ratio) ELSE @,
                !.iteration = @ + 1]

\* The end of an iteration: the best state is replaced when the packing
\* exceeds the best packing, and the temperature falls.
EndIteration(r) ==
  LET better == RatLt(r.packing_max, r.packing)
  IN  [r EXCEPT !.best_state = IF better THEN r.state ELSE @,
                !.packing_max = IF better THEN r.packing ELSE @,
                !.kt = RatMul(@, r.kt_ratio),
                !.iteration = @ + 1]

\* The mutant of a rejection that leaves the candidate in place.
Reject_keep(r, candidate, h, before) ==
  [r EXCEPT !.rejections = @ + 1, !.state = candidate]

\* A rejection: rejections += 1 and reset_value of the handle written,
\* which puts back the value from before the write.
Reject(r, candidate, h, before) ==
  [r EXCEPT !.rejections = @ + 1, !.state = Put(candidate, h, before)]

\* One iteration of the loop of run w: handle basis_index is set to a value
\* drawn from its bounds; an intersecting candidate is rejected and the
\* handle reset; for another, u is drawn and the candidate is rejected if
\* u > mc_temperature(..), and kept otherwise.  last records the iteration.
Step(w) ==
  /\ runs[w].pc = "loop"
  /\ runs[w].iteration < runs[w].vars.steps
  /\ \E basis_index \in 1..Len(runs[w].basis) :
       \E value \in Samples(runs[w].basis[basis_index]) :
         LET r == runs[w]
             h == r.basis[basis_index]
             before == get_value(r.state, h)
             candidate == set_value(r.state, h, value)
         IN  IF run_check_intersection(r.check, candidate)
             THEN runs' = [runs EXCEPT ![w] = EndIteration(
                     [Reject(r, candidate, h, before) EXCEPT
                               !.last = Some([intersects |-> TRUE])])]
             ELSE \E u \in USamples :
                    LET packing == packing_fraction(candidate)
                        A == mc_temperature(r.packing_prev, packing, r.kt,
                                            r.total_shapes)
                        seen == IF r.seen # None /\ RatLe(packing, r.seen.val)
                                THEN r.seen ELSE Some(packing)
                        record == Some([intersects |-> FALSE,
                                        p_old |-> r.packing_prev,
                                        p_new |-> packing,
                                        kt |-> r.kt, u |-> u, A |-> A,
                                        accepted |-> ~FloatGt(u, A)])
                    IN  IF FloatGt(u, A)
                        THEN runs' = [runs EXCEPT ![w] = EndIteration(
                                [Reject(r, candidate, h, before) EXCEPT
                                          !.packing = r.packing_prev,
                                          !.last = record, !.seen = seen])]
                        ELSE runs' = [runs EXCEPT ![w] = EndIteration(
                                [r EXCEPT !.state = candidate,
                                          !.packing = packing,
                                          !.packing_prev = packing,
                                          !.last = record, !.seen = seen])]
  /\ UNCHANGED <<state, basis, saved, final, input>>

\* The mutant of the return that may leave the loop before its last
\* iteration.
Return_early(w) ==
  /\ runs[w].pc = "loop"
  /\ runs[w].iteration <= runs[w].vars.steps
  /\ runs' = [runs EXCEPT ![w].pc = "done", ![w].result = Some(runs[w].best_state)]
  /\ UNCHANGED <<state, basis, saved, final, input>>

\* The loop is over: the run returns its best state.
Return(w) ==
  /\ runs[w].pc = "loop"
  /\ runs[w].iteration = runs[w].vars.steps
  /\ runs' = [runs EXCEPT ![w].pc = "done", ![w].result = Some(runs[w].best_state)]
  /\ UNCHANGED <<state, basis, saved, final, input>>

\* One run of the optimiser on the initial state of a group.
InitOptimizer ==
  /\ \E in \in StateInputs : state = from_group(in[1], WallpaperGroupOf(in[2]))
  /\ basis = generate_basis(state)
  /\ saved = None
  /\ \E check \in Checks : \E mcvars \in MCVarsInputs :
        runs = <<StartRun(check, mcvars, state)>>
  /\ final = None
  /\ input = None

NextOptimizer ==
  \/ \E w \in 1..Len(runs) : Step(w)
  \/ \E w \in 1..Len(runs) : Return(w)

SpecOptimizer == InitOptimizer /\ [][NextOptimizer]_vars

\* Some run is in its loop with an iteration left to make: the guard of
\* Step, under which Step has a next state for every handle and every value
\* drawn.
StepPending ==
  \E w \in 1..Len(runs) :
     runs[w].pc = "loop" /\ runs[w].iteration < runs[w].vars.steps

\* Some run ends an iteration of its loop: of the steps of NextOptimizer,
\* those of Step.
Iterates ==
  \E w \in 1..Len(runs) : runs'[w].iteration = runs[w].iteration + 1

\* The run as the thread that calls it executes it: the loop body and the
\* return are straight-line code with no blocking call, so an iteration that
\* is due is made and a return that is due is taken.  Both conjuncts are
\* weak fairness; that of the loop body is written out, with the guard of
\* Step in the place of ENABLED <<Step>>_vars.
SpecOptimizerLive ==
  /\ SpecOptimizer
  /\ WF_vars(\E w \in 1..Len(runs) : Return(w))
  /\ ([]<>~StepPending \/ []<><<Iterates>>_vars)

(***************************************************************************)
(* The fan-out of main: num_start_configs runs, each on a state it         *)
(* initialises itself, reduced by max.  main is written against the        *)
(* PackedState of state/packed.rs, whose check_intersection the runs use.  *)
(***************************************************************************)
\* The mutant of std::cmp::max that keeps the lesser state.
std_min(v1, v2) ==
  LET ord == cmp(v1, v2)
  IN  IF ord = Panic THEN Panicked ELSE IF ord = "Greater" THEN v2 ELSE v1

\* std::cmp::max by Ord::cmp: the second argument unless the first is
\* greater; a panic of cmp is a panic of max.
std_max(v1, v2) ==
  LET ord == cmp(v1, v2)
  IN  IF ord = Panic THEN Panicked ELSE IF ord = "Greater" THEN v1 ELSE v2

\* .max() over the results, in the order of the runs.
RECURSIVE MaxFrom(_, _)
MaxFrom(acc, rest) ==
  IF rest = << >> \/ acc = Panicked THEN acc
  ELSE MaxFrom(std_max(acc, Head(rest)), Tail(rest))

Results == [w \in 1..Len(runs) |-> runs[w].result.val]

FanOutInputs == {<<Square, "p1">>, <<Square, "p1m1">>}

\* main up to the fan-out: the state of a regular polygon is initialised and
\* found free of intersections (main panics otherwise); vars.steps is one,
\* and every run initialises its own state from the same shape, wallpaper
\* and sites.
InitFanOut ==
  /\ \E in \in FanOutInputs :
        state = initialise(in[1], WallpaperNew(WallpaperGroupOf(in[2])),
                           <<WyckoffSiteNew(WallpaperGroupOf(in[2]))>>)
  /\ ~check_intersection(state)
  /\ basis = generate_basis(state)
  /\ saved = None
  /\ \E mcvars \in {v \in MCVarsInputs : v.steps = 1} :
        runs = [w \in 1..mcvars.num_start_configs |->
                  StartRun("packed", mcvars,
                           initialise(state.shape, state.wallpaper,
                                      <<state.occupied_sites[1].wyckoff>>))]
  /\ final = None
  /\ input = None

\* The reduction, once every run has returned.
Reduce ==
  /\ final = None
  /\ \A w \in 1..Len(runs) : runs[w].pc = "done"
  /\ final' = Some(MaxFrom(Head(Results), Tail(Results)))
  /\ UNCHANGED <<state, basis, saved, runs, input>>

NextFanOut ==
  \/ \E w \in 1..Len(runs) : Step(w)
  \/ \E w \in 1..Len(runs) : Return(w)
  \/ Reduce

SpecFanOut == InitFanOut /\ [][NextFanOut]_vars

(***************************************************************************)
(* Texts under parsing.  A group name is given on the command line (kind   *)
(* "arg": clap checks it against variants(), value_t! parses and unwraps   *)
(* it, the descriptor of the group is taken and the state built) or to     *)
(* from_str directly (kind "name": parsed, displayed and parsed again, and *)
(* its descriptor taken); a symmetry operation (kind "ops") is given to    *)
(* SymmetryTransform::new.                                                 *)
(***************************************************************************)
MaxOpsLen == 3

\* The names given: the seven names, the alias, and others.
NameInputs ==
  WallpaperGroups \cup {"pg", "p2m1", "p3", "p4", "P1", "", "p1 ", "cm", "p6m"}

\* The characters of the operations given: x, y, a sign, a fraction, the
\* comma, and a letter the parser has no arm for.
OpsAlphabet == {"x", "y", "-", ",", "1", "/", "2", "q"}

\* The operations given: every text of up to MaxOpsLen characters, and the
\* operations of the groups.
OpsInputs ==
  UNION {[1..k -> OpsAlphabet] : k \in 0..MaxOpsLen}
  \cup UNION {{WallpaperGroupOf(g).wyckoff_str[i] :
                  i \in 1..Len(WallpaperGroupOf(g).wyckoff_str)} :
               g \in WallpaperGroups}

NewInput(kind, name, ops) ==
  [kind |-> kind, name |-> name, ops |-> ops, pc |-> "start",
   parsed |-> None, shown |-> None, reparsed |-> None, group |-> None,
   transform |-> None]

InitParse ==
  /\ state = None
  /\ basis = << >>
  /\ saved = None
  /\ runs = << >>
  /\ final = None
  /\ \/ \E name \in NameInputs : input = NewInput("arg", name, << >>)
     \/ \E name \in NameInputs : input = NewInput("name", name, << >>)
     \/ \E ops \in OpsInputs : input = NewInput("ops", "", ops)

\* cli: clap accepts the positional argument if it is one of variants().
Clap ==
  /\ input.kind = "arg" /\ input.pc = "start"
  /\ input' = [input EXCEPT !.pc =
        IF \E i \in 1..Len(variants) : variants[i] = input.name
        THEN "accepted" ELSE "usage"]
  /\ UNCHANGED <<state, basis, saved, runs, final>>

\* main: value_t!(.., WallpaperGroups).unwrap().
ValueT ==
  /\ input.kind = "arg" /\ input.pc = "accepted"
  /\ input' = [input EXCEPT !.parsed = Some(from_str(input.name)),
                            !.pc = IF from_str(input.name).ok THEN "parsed" ELSE "panic"]
  /\ UNCHANGED <<state, basis, saved, runs, final>>

\* from_str on a name.
FromStr ==
  /\ input.kind = "name" /\ input.pc = "start"
  /\ input' = [input EXCEPT !.parsed = Some(from_str(input.name)),
                            !.pc = IF from_str(input.name).ok THEN "parsed" ELSE "error"]
  /\ UNCHANGED <<state, basis, saved, runs, final>>

\* The identifier parsed is displayed, and the text displayed is parsed.
Display ==
  /\ input.kind = "name" /\ input.pc = "parsed"
  /\ input' = [input EXCEPT !.shown = Some(fmt(input.parsed.val.val)),
                            !.reparsed = Some(from_str(fmt(input.parsed.val.val))),
                            !.pc = "shown"]
  /\ UNCHANGED <<state, basis, saved, runs, final>>

\* WallpaperGroup::try_from of the identifier parsed.
TryFrom ==
  /\ \/ input.kind = "arg" /\ input.pc = "parsed"
     \/ input.kind = "name" /\ input.pc = "shown"
  /\ input' = [input EXCEPT !.group = Some(WallpaperGroupOf(input.parsed.val.val)),
                            !.pc = "group"]
  /\ UNCHANGED <<state, basis, saved, runs, final>>

\* main: the wallpaper and the site of the group, and the state of the
\* four-sided polygon.
Build ==
  /\ input.kind = "arg" /\ input.pc = "group"
  /\ state' = initialise(Square, WallpaperNew(input.group.val),
                         <<WyckoffSiteNew(input.group.val)>>)
  /\ basis' = generate_basis(state')
  /\ input' = [input EXCEPT !.pc = "built"]
  /\ UNCHANGED <<saved, runs, final>>

\* SymmetryTransform::new on an operation.
ParseOps ==
  /\ input.kind = "ops" /\ input.pc = "start"
  /\ input' = [input EXCEPT !.transform = Some(SymmetryTransformNew(input.ops)),
                            !.pc = "parsed"]
  /\ UNCHANGED <<state, basis, saved, runs, final>>

NextParse ==
  \/ Clap
  \/ ValueT
  \/ FromStr
  \/ Display
  \/ TryFrom
  \/ Build
  \/ ParseOps

SpecParse == InitParse /\ [][NextParse]_vars

(***************************************************************************)
(* Properties of the packed state under basis writes and restores          *)
(* (SpecState).                                                            *)
(***************************************************************************)

\* C1: score() returns no value exactly when check_intersection() is true,
\* and otherwise returns shape.area() * total_shapes() / cell.area().
C1_ScoreContract ==
  LET ca == CellArea(state.cell)
      sites == state.occupied_sites
      shapes == SumSeq([i \in 1..Len(sites) |-> Len(sites[i].wyckoff.symmetries)])
  IN  IF check_intersection(state)
      THEN score(state) = None
      ELSE score(state) =
             Some(Rat(ShapeAreaNum(state.shape) * shapes * ca.d, ShapeAreaDen * ca.n))

\* A write has made the shapes of a several-shape state intersect, and the
\* state has no score.
C1_Witness ==
  /\ saved # None
  /\ total_shapes(state) > 1
  /\ check_intersection(state)
  /\ ~check_intersection(previous)
  /\ score(state) = None

\* C2: in every state reached by basis writes and restores, if score()
\* returns a value then no two shape images overlap in the periodic tiling
\* of the cell, at any lattice offset.
C2_ScoredStatesDoNotOverlap ==
  score(state) # None => ~TilingOverlap(state)

\* C7: comparing two packed states never aborts; two scored states compare
\* as their scores do, and a state with no score is strictly less than a
\* scored one.  The states compared are the state and the state before its
\* last write.
C7_OrderingByScore ==
  LET s == score(state)
      o == score(previous)
  IN  /\ cmp(state, previous) # Panic
      /\ (s # None /\ o # None) => cmp(state, previous) = RatCmp(s.val, o.val)
      /\ (s = None /\ o # None) => cmp(state, previous) = "Less"
      /\ (s # None /\ o = None) => cmp(state, previous) = "Greater"

\* The groups a state can have been built from by from_group.
GroupsOf(s) ==
  {g \in WallpaperGroups :
     /\ s.wallpaper = WallpaperNew(WallpaperGroupOf(g))
     /\ Len(s.occupied_sites) = 1
     /\ s.occupied_sites[1].wyckoff = WyckoffSiteNew(WallpaperGroupOf(g))}

\* C10: total_shapes() is the sum of the multiplicities of the occupied
\* sites; for a state built by from_group it is the number of operations of
\* the group, and basis writes and restores do not change it.
C10_TotalShapes ==
  LET sites == state.occupied_sites
  IN  /\ total_shapes(state) =
           SumSeq([i \in 1..Len(sites) |-> Len(sites[i].wyckoff.symmetries)])
      /\ GroupsOf(state) # {}
      /\ \A g \in GroupsOf(state) :
            total_shapes(state) = Len(WallpaperGroupOf(g).wyckoff_str)
      /\ total_shapes(state) = total_shapes(previous)

\* A state of a group of four operations whose site has been moved.
C10_Witness ==
  /\ saved # None
  /\ state # previous
  /\ basis[saved.val.index].kind = "x"
  /\ total_shapes(state) = 4


(***************************************************************************)
(* Properties of a run of the optimiser (SpecOptimizer).                   *)
(***************************************************************************)
ValidStep(r) == r.last # None /\ ~r.last.val.intersects

\* C3: the packing fraction of the best state, and so of the state a run
\* returns, is at least the packing fraction of the initial state.
C3_BestNotBelowInitial ==
  \A w \in 1..Len(runs) :
     /\ RatLe(packing_fraction(runs[w].initial), packing_fraction(runs[w].best_state))
     /\ runs[w].pc = "done" =>
           RatLe(packing_fraction(runs[w].initial), packing_fraction(runs[w].result.val))

\* A run of MaxSteps steps has returned a state denser than its initial
\* state after rejecting a candidate.
C3_Witness ==
  \E w \in 1..Len(runs) :
     /\ runs[w].pc = "done"
     /\ runs[w].vars.steps = MaxSteps
     /\ runs[w].rejections > 0
     /\ RatLt(packing_fraction(runs[w].initial), packing_fraction(runs[w].result.val))

\* The failure a run is to end with when it has seen no valid state.
NoFeasibleState == [error |-> "NoFeasibleState"]

\* C4: a run returns a state only if the state is valid, and then it is the
\* best valid state seen; a run that has seen no valid state fails with
\* NoFeasibleState.
C4_ReturnsBestValidState ==
  \A w \in 1..Len(runs) :
     runs[w].pc = "done" =>
        IF runs[w].seen = None
        THEN runs[w].result = NoFeasibleState
        ELSE /\ runs[w].result # NoFeasibleState
             /\ ~run_check_intersection(runs[w].check, runs[w].result.val)
             /\ packing_fraction(runs[w].result.val) = runs[w].seen.val

\* C5: a candidate that does not intersect is accepted if and only if
\* u <= A, with A = exp((1/p_old - 1/p_new)/kt) * (p_old/p_new)^n.
C5_AcceptedIffUAtMostA ==
  \A w \in 1..Len(runs) :
     ValidStep(runs[w]) =>
        LET l == runs[w].last.val
        IN  l.accepted <=>
              FloatLe(l.u, mc_temperature(l.p_old, l.p_new, l.kt, runs[w].total_shapes))

\* C6: a candidate that does not intersect and whose packing fraction
\* exceeds the positive last accepted one has A >= 1 and is accepted,
\* whatever the temperature.
C6_DenserAlwaysAccepted ==
  \A w \in 1..Len(runs) :
     ValidStep(runs[w]) =>
        LET l == runs[w].last.val
        IN  (l.p_old.n > 0 /\ RatLt(l.p_old, l.p_new)) =>
               /\ FloatGeOne(mc_temperature(l.p_old, l.p_new, l.kt, runs[w].total_shapes))
               /\ l.accepted

\* C6, amended: with 0 < p_old < p_new <= 1 and n * kt <= 1, A >= 1 and the
\* candidate is accepted whatever u is drawn.
C6_DenserAcceptedWhenCool ==
  \A w \in 1..Len(runs) :
     ValidStep(runs[w]) =>
        LET l == runs[w].last.val
        IN  (/\ l.p_old.n > 0
             /\ RatLt(l.p_old, l.p_new)
             /\ RatLe(l.p_new, Rat(1, 1))
             /\ RatLe(RatMul(l.kt, Rat(runs[w].total_shapes, 1)), Rat(1, 1))) =>
               /\ FloatGeOne(mc_temperature(l.p_old, l.p_new, l.kt, runs[w].total_shapes))
               /\ l.accepted

\* A denser candidate has been accepted at n * kt <= 1 with a finite A and
\* the greatest u drawn.
C6_Witness ==
  \E w \in 1..Len(runs) :
     /\ ValidStep(runs[w])
     /\ LET l == runs[w].last.val
        IN  /\ l.p_old.n > 0
            /\ RatLt(l.p_old, l.p_new)
            /\ RatLe(RatMul(l.kt, Rat(runs[w].total_shapes, 1)), Rat(1, 1))
            /\ l.A.cls = "pos"
            /\ l.u = Rat(15, 16)
            /\ l.accepted


(***************************************************************************)
(* Properties of the fan-out (SpecFanOut).                                 *)
(***************************************************************************)

\* C8: two runs with the same MCVars (the seed included) and the same
\* initial state make the same proposals and decisions and return the same
\* best state.
C8_SameInputsSameRun ==
  \A w \in 1..Len(runs) : \A v \in 1..Len(runs) :
     (/\ runs[w].vars = runs[v].vars
      /\ runs[w].initial = runs[v].initial
      /\ runs[w].pc = "done"
      /\ runs[v].pc = "done") =>
        /\ runs[w].last = runs[v].last
        /\ runs[w].result = runs[v].result

\* C9: every run starts from its own copy of the freshly initialised
\* state, a step of one run changes no other run, and the reduced result is
\* the result of a run, of the greatest packing fraction among the results.
C9_FanOutReducesToMax ==
  /\ [](/\ \A w \in 1..Len(runs) : runs[w].initial = state
        /\ final # None =>
              /\ final.val # Panicked
              /\ \E w \in 1..Len(runs) : final.val = runs[w].result.val
              /\ \A w \in 1..Len(runs) :
                    RatLe(packing_fraction(runs[w].result.val),
                          packing_fraction(final.val)))
  /\ [][\A w \in 1..Len(runs) : \A v \in 1..Len(runs) :
           (runs'[w] # runs[w] /\ v # w) => runs'[v] = runs[v]]_vars

\* The runs have returned states of different packing fractions, the last
\* run not the densest, and the reduction has kept the densest.
C9_Witness ==
  /\ final # None
  /\ final.val # Panicked
  /\ \E w \in 1..Len(runs) :
        /\ w < Len(runs)
        /\ final.val = runs[w].result.val
        /\ RatLt(packing_fraction(runs[Len(runs)].result.val),
                 packing_fraction(final.val))


(***************************************************************************)
(* Properties of the state initialise builds (SpecOptimizer: initial is    *)
(* the state a run was handed, as PackedState::initialise built it).       *)
(***************************************************************************)
\* The greatest radial point of a shape, in units of 1/Sub.
MaxRadial(shape) ==
  CHOOSE m \in {shape.radial_points[i] : i \in 1..Len(shape.radial_points)} :
     \A i \in 1..Len(shape.radial_points) : shape.radial_points[i] <= m

\* The sum of the multiplicities of the sites of a state.
Multiplicities(s) ==
  SumSeq([i \in 1..Len(s.occupied_sites) |->
            Len(s.occupied_sites[i].wyckoff.symmetries)])

\* C11: initialise builds a cell whose sides a and b both equal
\* 4 * enclosing_radius * N, N the sum of the multiplicities of the sites;
\* for a right-angled initial cell the initial packing fraction is
\* shape.area * N / (4 * enclosing_radius * N)^2, which is 1/8 for the
\* unit-radius square with N = 1 and 1/32 with N = 4.
C11_InitialCell ==
  \A w \in 1..Len(runs) :
     LET s == runs[w].initial
         N == Multiplicities(s)
         side == 4 * MaxRadial(s.shape) * N
     IN  /\ s.cell.a * Sub = side * Unit
         /\ s.cell.b * Sub = side * Unit
         /\ s.cell.angle = RightAngle =>
               /\ RatEq(packing_fraction(s),
                        Rat(ShapeAreaNum(s.shape) * N * Sub * Sub,
                            ShapeAreaDen * side * side * Unit * Unit))
               /\ (s.shape = Square /\ N = 1) => packing_fraction(s) = Rat(1, 8)
               /\ (s.shape = Square /\ N = 4) => packing_fraction(s) = Rat(1, 32)

\* A run was handed the initial state of the square in a group of four
\* operations, of packing fraction 1/32.
C11_Witness ==
  \E w \in 1..Len(runs) :
     /\ runs[w].initial.shape = Square
     /\ Multiplicities(runs[w].initial) = 4
     /\ runs[w].initial.cell.a = 16 * Unit
     /\ packing_fraction(runs[w].initial) = Rat(1, 32)
     /\ runs[w].iteration > 0


\* C12: for each of the seven groups the initial state built by from_group
\* (site at x = y = -0.5 + 0.5 / multiplicity, angle 0) has no intersection
\* between two shape copies or their periodic images, so its score() is a
\* value, and that value is positive and at most 1.  The initial state is
\* the state of a run before its first iteration.
C12_InitialStateValid ==
  \A w \in 1..Len(runs) :
     runs[w].iteration = 0 =>
        LET s == runs[w].state
            site == s.occupied_sites[1]
            m == Len(site.wyckoff.symmetries)
        IN  /\ GroupsOf(s) # {}
            /\ 2 * m * site.x = Sub - m * Sub
            /\ site.y = site.x
            /\ site.angle = 0
            /\ ~check_intersection(s)
            /\ ~TilingOverlap(s)
            /\ score(s) # None
            /\ RatLt(Rat(0, 1), score(s).val)
            /\ RatLe(score(s).val, Rat(1, 1))

\* The initial state of the square in p2gg: four copies, a glide in both
\* directions, and a score.
C12_Witness ==
  \E w \in 1..Len(runs) :
     /\ runs[w].iteration = 0
     /\ "p2gg" \in GroupsOf(runs[w].state)
     /\ total_shapes(runs[w].state) = 4
     /\ score(runs[w].state) # None


(***************************************************************************)
(* Properties of the cell and the basis of a state of any family, under    *)
(* basis writes and restores (SpecCell).                                   *)
(***************************************************************************)
\* The kind and the site of each handle of a basis, in order.
Layout(b) == [i \in 1..Len(b) |-> <<b[i].kind, b[i].site>>]

\* C13: generate_basis returns the handles in a fixed order: the cell's a;
\* then b exactly when the family is Orthorhombic or Monoclinic; then the
\* angle exactly when the family is Monoclinic; then, for each occupied
\* site in site order, its x, y and angle.  The basis length is (1, 2 or 3
\* by family) + 3 * number of sites.
C13_BasisOrder ==
  LET family == state.cell.family
      sites == Len(state.occupied_sites)
      cell == CASE family = "Monoclinic" -> << <<"a", 0>>, <<"b", 0>>, <<"gamma", 0>> >>
                [] family = "Orthorhombic" -> << <<"a", 0>>, <<"b", 0>> >>
                [] family \in {"Hexagonal", "Tetragonal"} -> << <<"a", 0>> >>
      got == Layout(generate_basis(state))
  IN  /\ Len(got) = Len(cell) + 3 * sites
      /\ SubSeq(got, 1, Len(cell)) = cell
      /\ \A k \in 1..sites :
            SubSeq(got, Len(cell) + 3 * k - 2, Len(cell) + 3 * k)
              = << <<"x", k>>, <<"y", k>>, <<"angle", k>> >>
      /\ got = Layout(basis)

\* A Tetragonal state of two sites whose second site has been turned: its
\* basis has the one handle of the cell and six of the sites.
C13_Witness ==
  /\ state.cell.family = "Tetragonal"
  /\ Len(state.occupied_sites) = 2
  /\ state.occupied_sites[2].angle # 0
  /\ Len(generate_basis(state)) = 7


(***************************************************************************)
(* Properties of the parameters during a run of the optimiser              *)
(* (SpecOptimizer).                                                        *)
(***************************************************************************)
\* Every parameter of s lies within the bounds of its handle, s0 being the
\* state at construction: a and b in [0.01, their value in s0], the cell
\* angle within pi/4 (785.4 milliradians) of pi/2, x and y of each site in
\* [-0.5, 0.5] and its angle in [0, 2 pi / rotational_symmetry].
WithinBounds(s, s0) ==
  /\ RatLe(Rat(Unit, 100), Rat(s.cell.a, 1)) /\ s.cell.a <= s0.cell.a
  /\ RatLe(Rat(Unit, 100), Rat(s.cell.b, 1)) /\ s.cell.b <= s0.cell.b
  /\ s.cell.angle \in 1..Len(CellAngles)
  /\ CellAngles[s.cell.angle].dev <= 785
  /\ \A k \in 1..Len(s.occupied_sites) :
        LET site == s.occupied_sites[k]
        IN  /\ -Sub <= 2 * site.x /\ 2 * site.x <= Sub
            /\ -Sub <= 2 * site.y /\ 2 * site.y <= Sub
            /\ 0 <= site.angle
            /\ site.angle * s.shape.rotational_symmetries <= 4

AngleMilli(i) ==
  IF CellAngles[i].c > 0 THEN 1571 - CellAngles[i].dev
  ELSE 1571 + CellAngles[i].dev

\* C15: in every state reachable from Cell::from_family by basis writes and
\* restores, a > 0, b > 0, the angle is in (0, pi), and the constraints of
\* the family hold: a = b and angle = pi/3 for Hexagonal, a = b and
\* angle = pi/2 for Tetragonal, angle = pi/2 for Orthorhombic.
C15_CellInvariants ==
  LET cell == state.cell
  IN  /\ cell.a > 0
      /\ cell.b > 0
      /\ cell.angle \in 1..Len(CellAngles)
      /\ 0 < AngleMilli(cell.angle) /\ AngleMilli(cell.angle) < 3141
      /\ cell.family = "Hexagonal" =>
            /\ cell.a = cell.b
            /\ CellAngles[cell.angle].c = 1 /\ CellAngles[cell.angle].den = 2
      /\ cell.family = "Tetragonal" =>
            /\ cell.a = cell.b
            /\ CellAngles[cell.angle].c = 0
      /\ cell.family = "Orthorhombic" => CellAngles[cell.angle].c = 0

\* A Hexagonal cell has been shrunk by a write of a: b has followed, and
\* the angle is still pi/3.
C15_Witness ==
  /\ state.cell.family = "Hexagonal"
  /\ saved # None
  /\ basis[saved.val.index].kind = "a"
  /\ state.cell.a < saved.val.value
  /\ state.cell.b = state.cell.a
  /\ state.cell.angle = HexagonalAngle


(***************************************************************************)
(* Properties of the parsing of group names and symmetry operations        *)
(* (SpecParse).                                                            *)
(***************************************************************************)
\* The row of a group in the wallpaper group table: its name, its family
\* and its operations.
GroupTable(id) ==
  CASE id = "p1" ->
         [name |-> "p1", family |-> "Monoclinic",
          operations |-> << <<"x", ",", "y">> >>]
    [] id = "p2" ->
         [name |-> "p2", family |-> "Monoclinic",
          operations |-> << <<"x", ",", "y">>, <<"-", "x", ",", "-", "y">> >>]
    [] id = "p1m1" ->
         [name |-> "p1m1", family |-> "Orthorhombic",
          operations |-> << <<"x", ",", "y">>, <<"-", "x", ",", "y">> >>]
    [] id = "p1g1" ->
         [name |-> "p1g1", family |-> "Orthorhombic",
          operations |-> << <<"x", ",", "y">>,
                            <<"-", "x", ",", "y", "+", "1", "/", "2">> >>]
    [] id = "p2mm" ->
         [name |-> "p2mm", family |-> "Orthorhombic",
          operations |-> << <<"x", ",", "y">>, <<"-", "x", ",", "-", "y">>,
                            <<"-", "x", ",", "y">>, <<"x", ",", "-", "y">> >>]
    [] id = "p2mg" ->
         [name |-> "p2mg", family |-> "Orthorhombic",
          operations |-> << <<"x", ",", "y">>, <<"-", "x", ",", "-", "y">>,
                            <<"-", "x", "+", "1", "/", "2", ",", "y">>,
                            <<"x", "+", "1", "/", "2", ",", "-", "y">> >>]
    [] id = "p2gg" ->
         [name |-> "p2gg", family |-> "Orthorhombic",
          operations |-> << <<"x", ",", "y">>, <<"-", "x", ",", "-", "y">>,
                            <<"-", "x", "+", "1", "/", "2", ",", "y", "+", "1", "/", "2">>,
                            <<"x", "+", "1", "/", "2", ",", "-", "y", "+", "1", "/", "2">> >>]

\* A text without its blanks.
RECURSIVE StripSpaces(_)
StripSpaces(s) ==
  IF s = << >> THEN << >>
  ELSE IF Head(s) = " " THEN StripSpaces(Tail(s))
  ELSE <<Head(s)>> \o StripSpaces(Tail(s))

\* C16: converting one of the seven identifiers to its WallpaperGroup
\* descriptor yields the name, the crystal family and the ordered operation
\* list (blanks apart) of the group's row of the wallpaper group table; the
\* descriptor's name equals the identifier's displayed name.
C16_DescriptorIsTableRow ==
  input # None /\ input.group # None =>
     LET id == input.parsed.val.val
         group == input.group.val
         row == GroupTable(id)
     IN  /\ group.name = row.name
         /\ group.name = fmt(id)
         /\ group.family = row.family
         /\ Len(group.wyckoff_str) = Len(row.operations)
         /\ \A i \in 1..Len(group.wyckoff_str) :
               StripSpaces(group.wyckoff_str[i]) = row.operations[i]

\* C17: parsing a group name accepts exactly the seven names and the alias
\* pg; pg is mapped to p1g1, every other string is rejected with an error,
\* and parsing the displayed name of an identifier gives the identifier
\* back.
C17_NamesParsed ==
  input # None /\ input.parsed # None =>
     /\ input.name \in WallpaperGroups => input.parsed.val = Ok(input.name)
     /\ input.name = "pg" => input.parsed.val = Ok("p1g1")
     /\ input.name \notin WallpaperGroups \cup {"pg"} =>
           /\ ~input.parsed.val.ok
           /\ input.pc \in {"error", "panic"}
     /\ input.shown # None =>
           /\ input.shown.val \in WallpaperGroups
           /\ input.reparsed.val = Ok(input.parsed.val.val)

\* The alias pg has been parsed to p1g1, displayed as p1g1 and parsed back.
C17_Witness ==
  /\ input # None
  /\ input.kind = "name"
  /\ input.name = "pg"
  /\ input.pc = "shown"
  /\ input.shown.val = "p1g1"
  /\ input.reparsed.val = Ok("p1g1")

\* C18: the values the command line accepts for its positional argument
\* are exactly the recognized group names: every one of the seven names is
\* accepted, and every accepted value parses to a wallpaper group.
C18_AcceptedAreTheNames ==
  (input # None /\ input.kind = "arg" /\ input.pc # "start") =>
     /\ input.name \in WallpaperGroups => input.pc # "usage"
     /\ input.pc # "usage" => input.name \in WallpaperGroups
     /\ input.pc # "panic"

\* The characters a symmetry operation is made of.
OpsCharacters ==
  {"x", "y", "+", "-", "*", "/", ",", " "} \cup Digits

ParseError == Err("ParseError")

\* C19: parsing a symmetry operation that contains a character outside x,
\* y, the digits, +, -, *, /, the comma and the blank fails with a
\* ParseError: no such string yields a transform.
C19_UnknownCharacterIsAnError ==
  (input # None /\ input.kind = "ops" /\ input.pc = "parsed") =>
     ((\E i \in 1..Len(input.ops) : input.ops[i] \notin OpsCharacters) =>
        input.transform.val = ParseError)


(***************************************************************************)
(* Properties of the steps of a run (SpecOptimizer).                       *)
(***************************************************************************)
\* The iteration a run made last was rejected: its candidate intersected,
\* or the acceptance rule rejected it.
Rejected(r) ==
  /\ r.last # None
  /\ r.last.val.intersects \/ ~r.last.val.accepted

\* C20: after an optimiser step that is rejected, because the candidate
\* intersects or because the acceptance rule rejects it, every parameter of
\* the state equals its value immediately before the step, the rejection
\* counter has increased by exactly one, and the remembered last-accepted
\* packing fraction is unchanged.
C20_RejectionRestores ==
  [][\A w \in 1..Len(runs) :
        (runs'[w].iteration = runs[w].iteration + 1 /\ Rejected(runs'[w])) =>
           /\ runs'[w].state = runs[w].state
           /\ runs'[w].rejections = runs[w].rejections + 1
           /\ runs'[w].packing_prev = runs[w].packing_prev]_vars

\* A run has kept a first candidate and the acceptance rule has rejected a
\* second one: the state is the one kept, not the initial one.
C20_Witness ==
  \E w \in 1..Len(runs) :
     /\ runs[w].iteration >= 2
     /\ runs[w].last # None
     /\ ~runs[w].last.val.intersects
     /\ ~runs[w].last.val.accepted
     /\ runs[w].rejections = 1
     /\ runs[w].state # runs[w].initial
     /\ runs[w].packing_prev = packing_fraction(runs[w].state)



\* C21: after every step the packing fraction of the best state of a run is
\* the greatest packing fraction among the initial state and the candidates
\* evaluated so far that do not intersect: a candidate that does not
\* intersect and is denser than the best state becomes the best state,
\* whether the acceptance rule keeps it or not.
C21_BestIsMaximumSeen ==
  \A w \in 1..Len(runs) :
     runs[w].seen # None =>
        /\ packing_fraction(runs[w].best_state) = runs[w].seen.val
        /\ (ValidStep(runs[w]) /\ runs[w].last.val.p_new = runs[w].seen.val) =>
              packing_fraction(runs[w].best_state) = runs[w].last.val.p_new



\* C22: the temperature of a run starts at kt_start and is multiplied by
\* kt_ratio, the steps-th root of kt_finish / kt_start, once in every
\* iteration, whatever became of the candidate: after k iterations it is
\* kt_start * kt_ratio^k, and after the last one it is kt_finish.
C22_TemperatureSchedule ==
  \A w \in 1..Len(runs) :
     LET r == runs[w]
     IN  /\ RatPow(r.kt_ratio, r.vars.steps) = RatDiv(r.vars.kt_finish, r.vars.kt_start)
         /\ r.kt = RatMul(r.vars.kt_start, RatPow(r.kt_ratio, r.iteration))
         /\ r.iteration = 0 => r.kt = r.vars.kt_start
         /\ r.iteration = r.vars.steps => r.kt = r.vars.kt_finish

\* A run of MaxSteps steps has ended at kt_finish, below kt_start, after
\* keeping a candidate and then rejecting an intersecting one.
C22_Witness ==
  \E w \in 1..Len(runs) :
     /\ runs[w].pc = "done"
     /\ runs[w].vars.steps = MaxSteps
     /\ runs[w].check = "packed"
     /\ runs[w].rejections = 1
     /\ runs[w].last.val.intersects
     /\ runs[w].kt = runs[w].vars.kt_finish
     /\ RatLt(runs[w].kt, runs[w].vars.kt_start)



\* The handles of the basis of r whose value differs between states s and t.
Modified(r, s, t) ==
  {i \in 1..Len(r.basis) : get_value(s, r.basis[i]) # get_value(t, r.basis[i])}

\* C23: a run of steps >= 1 on a state with a non-empty basis makes exactly
\* `steps` iterations, each changing at most one handle of the basis, and
\* then returns a state: whatever is drawn, it neither goes on, nor stops
\* early, nor ends without a state.
C23_RunTerminatesAfterSteps ==
  /\ [](\A w \in 1..Len(runs) :
          /\ runs[w].iteration <= runs[w].vars.steps
          /\ Len(runs[w].basis) >= 1
          /\ \A i \in 1..Len(runs[w].basis) :
                /\ RatLt(runs[w].basis[i].min, runs[w].basis[i].max)
                /\ Samples(runs[w].basis[i]) # {}
          /\ runs[w].pc = "done" =>
                /\ runs[w].iteration = runs[w].vars.steps
                /\ runs[w].result = Some(runs[w].best_state))
  /\ [][\A w \in 1..Len(runs) :
          /\ runs'[w].iteration \in {runs[w].iteration, runs[w].iteration + 1}
          /\ Cardinality(Modified(runs[w], runs[w].state, runs'[w].state)) <= 1
          /\ runs[w].pc = "done" => runs'[w] = runs[w]]_vars
  /\ <>[](\A w \in 1..Len(runs) : runs[w].pc = "done")

\* A run of MaxSteps steps has returned after every one of its candidates
\* was found to intersect by the check of state/packed.rs.
C23_Witness ==
  \E w \in 1..Len(runs) :
     /\ runs[w].pc = "done"
     /\ runs[w].vars.steps = MaxSteps
     /\ runs[w].check = "packed"
     /\ runs[w].iteration = MaxSteps
     /\ runs[w].rejections = MaxSteps
     /\ runs[w].last.val.intersects
     /\ runs[w].result.val = runs[w].initial



(***************************************************************************)
(* The rule of check_intersection, stated on the copies of the shape.      *)
(***************************************************************************)
\* The neighbour range of a cell: 1 if 0.5 < a/b < 2 and the angle is
\* within 0.2 of pi/2, else 2 if 0.3 < a/b < 3 and it is within 0.5, else 3.
NeighbourRange(cell) ==
  LET ratio == Rat(cell.a, cell.b)
      delta == CellAngles[cell.angle].dev
  IN  IF RatLt(Rat(1, 2), ratio) /\ RatLt(ratio, Rat(2, 1)) /\ delta < 200 THEN 1
      ELSE IF RatLt(Rat(3, 10), ratio) /\ RatLt(ratio, Rat(3, 1)) /\ delta < 500 THEN 2
      ELSE 3

\* The copy of the shape of s at a relative position of the home cell,
\* translated by the lattice vector (i, j): its cartesian transform and its
\* vertices.
CopyTransform(s, position, i, j) ==
  to_cartesian_isometry(s.cell,
    [rot |-> position.rot,
     pos |-> <<position.pos[1] + i * Sub, position.pos[2] + j * Sub>>])

Copy(s, position, i, j) ==
  ShapeTransform(s.shape, CellAngles[s.cell.angle].den,
                 CopyTransform(s, position, i, j))

\* Two distinct copies of the home cell intersect.
HomePairIntersects(s) ==
  LET home == relative_positions(s)
  IN  \E k1 \in 1..Len(home) : \E k2 \in 1..Len(home) :
         /\ k1 # k2
         /\ intersects(Copy(s, home[k1], 0, 0), Copy(s, home[k2], 0, 0))

\* A copy of the home cell intersects a translated copy of any position,
\* its own included, at an offset other than (0, 0) within the neighbour
\* range, whose centre is at most two enclosing radii away.
NeighbourIntersects(s) ==
  LET home == relative_positions(s)
      range == NeighbourRange(s.cell)
      reach == 2 * EnclosingRadiusSub(s.shape) * CellAngles[s.cell.angle].den
  IN  \E k1 \in 1..Len(home) : \E k2 \in 1..Len(home) :
         \E i \in -range..range : \E j \in -range..range :
            /\ <<i, j>> # <<0, 0>>
            /\ DistanceSq(CopyTransform(s, home[k1], 0, 0).pos,
                          CopyTransform(s, home[k2], i, j).pos) <= reach * reach
            /\ intersects(Copy(s, home[k1], 0, 0), Copy(s, home[k2], i, j))

\* C24: check_intersection is true if and only if two distinct copies of
\* the home cell intersect (no copy against itself), or a copy of the home
\* cell intersects a translated copy of any position, its own included, at
\* an offset other than (0, 0) within the neighbour range and within two
\* enclosing radii; the neighbour range is 1, 2 or 3 by the ratio of the
\* sides and the angle of the cell.
C24_IntersectionRule ==
  /\ periodic_range(state.cell) = NeighbourRange(state.cell)
  /\ check_intersection(state) <=>
        (HomePairIntersects(state) \/ NeighbourIntersects(state))

\* A state of one shape per cell intersects: the shape meets its own image
\* in a neighbouring cell.
C24_Witness ==
  /\ total_shapes(state) = 1
  /\ check_intersection(state)
  /\ ~HomePairIntersects(state)
  /\ NeighbourIntersects(state)



(***************************************************************************)
(* Further properties of a run of the optimiser (SpecOptimizer).           *)
(***************************************************************************)
\* C25: every evaluation of the acceptance rule in a run, that of the first
\* iteration included, is made with a last accepted packing fraction p_old
\* and a candidate packing fraction p_new that are both strictly positive.
C25_AcceptanceArgumentsPositive ==
  \A w \in 1..Len(runs) :
     ValidStep(runs[w]) =>
        /\ RatLt(Rat(0, 1), runs[w].last.val.p_old)
        /\ RatLt(Rat(0, 1), runs[w].last.val.p_new)



(***************************************************************************)
(* The cell area under basis writes and restores (SpecState).              *)
(***************************************************************************)
\* The state as PackedState::initialise built it: the shape, the wallpaper
\* and the Wyckoff sites of a state never change.
InitialOf(s) ==
  initialise(s.shape, s.wallpaper,
             [i \in 1..Len(s.occupied_sites) |-> s.occupied_sites[i].wyckoff])

\* C26: in every state reached from the initial state through the basis the
\* cell area is strictly positive and at most the initial cell area (a and
\* b are at most their initial values, and the angle started at pi/2), so
\* every such state that is valid has a finite packing fraction that is at
\* least the initial one.
C26_AreaAtMostInitial ==
  LET initial == InitialOf(state)
      area == CellArea(state.cell)
  IN  /\ initial.cell.angle = RightAngle
      /\ 0 < state.cell.a /\ state.cell.a <= initial.cell.a
      /\ 0 < state.cell.b /\ state.cell.b <= initial.cell.b
      /\ RatLt(Rat(0, 1), area)
      /\ RatLe(area, CellArea(initial.cell))
      /\ ~check_intersection(state) =>
            /\ score(state) # None
            /\ score(state).val.d # 0
            /\ RatLe(packing_fraction(initial), score(state).val)

\* A valid state has been reached whose cell has shorter sides and another
\* angle than the initial one, and a greater packing fraction.
C26_Witness ==
  LET initial == InitialOf(state)
  IN  /\ ~check_intersection(state)
      /\ state.cell.angle # RightAngle
      /\ state.cell.a < initial.cell.a
      /\ state.cell.b < initial.cell.b
      /\ RatLt(CellArea(state.cell), CellArea(initial.cell))
      /\ RatLt(packing_fraction(initial), score(state).val)


=========================================================================
